---- MODULE Spec2Model ----
(***************************************************************************)
(* Model of the SSCore ephemeris-and-event engine: SSEvent.cpp (closed     *)
(* form rise/transit/set, iterative search, day-bounded search, pass       *)
(* circumstances, satellite pass finder) and the part of SSPlanet.cpp      *)
(* that it drives (computeEphemeris).                                      *)
(*                                                                         *)
(* Numbers are fixed point.  Times are whole seconds counted from the      *)
(* start of day 0.  Angles are counted in units of 1/1436 of a circle (one *)
(* unit is the angle the Earth turns through in one sidereal minute), so   *)
(* that every conversion between rotation angle and time is exact.  Sines  *)
(* and cosines are integers scaled by Scale.  INFINITY is a number larger  *)
(* than every finite time of the model.                                    *)
(***************************************************************************)
EXTENDS Integers, Sequences, FiniteSets, TLC

VARIABLES coords, orbit, obj, ephemJed, statics, ret, pc, fsp, passes

vars == <<coords, orbit, obj, ephemJed, statics, ret, pc, fsp, passes>>

(***************************************************************************)
(* Program constants                                                       *)
(***************************************************************************)
kSecondsPerDay == 86400
kMinutesPerDay == 1440
kTwoPi == 1436
kPi == kTwoPi \div 2
kHalfPi == kTwoPi \div 4
\* SSTime::kSiderealPerSolarDays = 1.00273790935, here 360/359
kSiderealNum == 360
kSiderealDen == 359
kDegPerRad == 57
kLightKmPerSec == 299792
kKmPerAU == 149597870
INFINITY == 1000000000
HUGE_VAL == INFINITY
imax == 10
\* 1.0 / SSTime::kSecondsPerDay of a day, in seconds
precision == kSecondsPerDay \div kSecondsPerDay
kRise == -1
kTransit == 0
kSet == 1
kSun == 0
kMercury == 1
kEarth == 3
kJupiter == 5
kSaturn == 6
kPluto == 9
kLuna == 301
kIo == 501
kTitan == 606

\* fixed-point scale of sine and cosine values
Scale == 1000
\* angle units in one radian (2 pi = 710/113)
UnitsPerRad == (kTwoPi * 113) \div 710

Abs(x) == IF x < 0 THEN -x ELSE x

isinf(x) == x = INFINITY \/ x = -INFINITY

(***************************************************************************)
(* libm: cos, sin, acos on the fixed-point grid                            *)
(***************************************************************************)
\* cosine on the first quadrant, 0 <= x <= kHalfPi
CosQ(x) == (Scale * (kPi * kPi - 4 * x * x)) \div (kPi * kPi + x * x)

Cos(x) ==
    LET a == Abs(x) % kTwoPi
        b == IF a > kPi THEN kTwoPi - a ELSE a
    IN IF b <= kHalfPi THEN CosQ(b) ELSE -CosQ(kPi - b)

Sin(x) == Cos(kHalfPi - x)

CosTab == [h \in 0..kPi |-> Cos(h)]

\* arc cosine of q/Scale for -Scale <= q < Scale: strictly inside (0, kPi).
\* The cosine does not increase on 0..kPi, so the angles whose cosine is at
\* least q are 1..n and the largest of them is their number.
ACosTab ==
    [q \in (-Scale)..(Scale - 1) |->
        LET H == {h \in 1..(kPi - 1) : CosTab[h] >= q}
        IN IF H = {} THEN 1 ELSE Cardinality(H)]

\* acos(num/den) for den > 0 and -den < num < den
ACos(num, den) == ACosTab[(num * Scale) \div den]

(***************************************************************************)
(* SSAngle, SSTime services used by SSEvent.cpp                            *)
(***************************************************************************)
\* SSAngle::modPi: reduce into (-kPi, kPi]
modPi(x) ==
    LET m == x % kTwoPi
    IN IF m > kPi THEN m - kTwoPi ELSE m

\* SSTime::getSiderealTime(lon): the sidereal angle grows by kTwoPi every
\* 1/kSiderealPerSolarDays days
getSiderealTime(time, lon) ==
    (lon + (time * kTwoPi) \div ((kSecondsPerDay \div kSiderealNum) * kSiderealDen)) % kTwoPi

\* SSTime::getLocalMidnight
getLocalMidnight(time) == time - (time % kSecondsPerDay)

(***************************************************************************)
(* SSEvent::semiDiurnalArc                                                 *)
(***************************************************************************)
CosHaNum(lat, dec, alt) == Sin(alt) * Scale - Sin(dec) * Sin(lat)

CosHaDen(lat, dec) == Cos(dec) * Cos(lat)

\* lines 19-24 with the two branches exchanged
ArcOfCosHa_swapped(num, den) ==
    IF num >= den THEN kPi
    ELSE IF num <= -den THEN 0
    ELSE ACos(num, den)

\* lines 19-24: the arc for cosha = num/den
ArcOfCosHa(num, den) ==
    IF num >= den THEN 0
    ELSE IF num <= -den THEN kPi
    ELSE ACos(num, den)

semiDiurnalArc(lat, dec, alt) == ArcOfCosHa(CosHaNum(lat, dec, alt), CosHaDen(lat, dec))

(***************************************************************************)
(* SSEvent::riseTransitSet (closed form)                                   *)
(***************************************************************************)
\* theta / kTwoPi / kSiderealPerSolarDays days, in seconds
RotationTime(theta) ==
    (theta * (kSecondsPerDay \div kSiderealNum) * kSiderealDen) \div kTwoPi

\* lines 53-73 with the test of the sign left out
EventTime_nosign(time, ra, sign, lon, ha) ==
    IF ha = kPi THEN INFINITY
    ELSE IF ha = 0 THEN -INFINITY
    ELSE time + RotationTime(modPi(ra - getSiderealTime(time, lon) + sign * ha))

\* lines 53-73 with the reduction of theta left out
EventTime_nomod(time, ra, sign, lon, ha) ==
    IF ha = kPi /\ sign # 0 THEN INFINITY
    ELSE IF ha = 0 THEN -INFINITY
    ELSE time + RotationTime(ra - getSiderealTime(time, lon) + sign * ha)

\* lines 53-73: the event time for the semi-diurnal arc ha
EventTime(time, ra, sign, lon, ha) ==
    IF ha = kPi /\ sign # 0 THEN INFINITY
    ELSE IF ha = 0 THEN -INFINITY
    ELSE time + RotationTime(modPi(ra - getSiderealTime(time, lon) + sign * ha))

riseTransitSet(time, ra, dec, sign, lon, lat, alt) ==
    EventTime(time, ra, sign, lon, semiDiurnalArc(lat, dec, alt))

(***************************************************************************)
(* SSPlanet: position, velocity and ephemeris                              *)
(*                                                                         *)
(* An object's orbit is [kind, ra0, rate, dec, dist] for a body on a       *)
(* circular orbit (longitude ra0 at time 0, moving by rate angle units per *)
(* day, at latitude dec and dist kilometres from the observer) and         *)
(* [kind, track] for a satellite, whose track gives its altitude at each   *)
(* time it has been propagated to, 1000 km away.  The observer sits at the *)
(* origin.                                                                 *)
(***************************************************************************)
Spherical(lon, lat, rad) == [lon |-> lon, lat |-> lat, rad |-> rad]

\* the object before its first computeEphemeris (SSPlanet::SSPlanet)
NewPlanet ==
    [position |-> Spherical(HUGE_VAL, HUGE_VAL, HUGE_VAL), velocity |-> HUGE_VAL,
     direction |-> [lon |-> HUGE_VAL, lat |-> HUGE_VAL], distance |-> HUGE_VAL]

\* the slots of primaryPos, primaryVel and primaryJED
PrimarySlots == kSun..kPluto

\* Jupiter, a planet moving like the Sun on a circular orbit
Primary == [kind |-> "planet", ra0 |-> 1, rate |-> 4, dec |-> 0, dist |-> kKmPerAU]

\* Saturn, on an orbit along which it speeds up
Eccentric ==
    [kind |-> "planet", ra0 |-> 3, rate |-> 4, dec |-> 0, dist |-> kKmPerAU, acc |-> 2]

\* the orbit of major planet p (lines 54-73)
MajorOrbit(p) ==
    IF p = kJupiter THEN Primary
    ELSE IF p = kSaturn THEN Eccentric
    ELSE IF p = kEarth THEN [kind |-> "planet", ra0 |-> 2, rate |-> 4, dec |-> 0, dist |-> kKmPerAU]
    ELSE [kind |-> "planet", ra0 |-> p, rate |-> 0, dec |-> 0, dist |-> kKmPerAU]

\* lines 112-116: the slot of a moon's primary
PrimarySlot(orb) ==
    IF orb.id \div 100 < 0 \/ orb.id \div 100 > 9 THEN 0 ELSE orb.id \div 100

\* the function-local statics of SSPlanet.cpp as the program starts:
\* primaryJED = { 0.0 }, earthJED = 0.0, the vectors never computed
NewStatics ==
    [primaryJED |-> [p \in PrimarySlots |-> 0], primaryPos |-> [p \in PrimarySlots |-> 0],
     primaryVel |-> [p \in PrimarySlots |-> 0], earthJED |-> 0, earthPos |-> 0,
     earthVel |-> 0]

\* whole days elapsed at time t
DaysAt(t) == t \div kSecondsPerDay

\* the departure from uniform motion of an orbit that is not circular: the
\* body gains orb.acc angle units per day each day (no field acc: none)
Advance(orb, t) == IF "acc" \in DOMAIN orb THEN orb.acc * DaysAt(t) * DaysAt(t) ELSE 0

AdvanceRate(orb, t) == IF "acc" \in DOMAIN orb THEN 2 * orb.acc * DaysAt(t) ELSE 0

computeMajorPlanetPositionVelocity(orb, jed, lt) ==
    [pos |-> Spherical(orb.ra0 + (orb.rate * (jed - lt)) \div kSecondsPerDay
                           + Advance(orb, jed - lt), orb.dec, orb.dist),
     vel |-> orb.rate + AdvanceRate(orb, jed - lt)]

\* the orbit's own motion, for a moon relative to its primary
computeMinorPlanetPositionVelocity(orb, jed, lt) ==
    [pos |-> Spherical(orb.ra0 + (orb.rate * (jed - lt)) \div kSecondsPerDay, orb.dec, orb.dist),
     vel |-> orb.rate]

\* lines 122-123: slot p is filled with the primary's position and velocity at jed
PrimaryFilled(p, jed, st) ==
    [st EXCEPT !.primaryPos[p] = computeMajorPlanetPositionVelocity(MajorOrbit(p), jed, 0).pos.lon,
               !.primaryVel[p] = computeMajorPlanetPositionVelocity(MajorOrbit(p), jed, 0).vel,
               !.primaryJED[p] = jed]

\* lines 120-124 with the test read as "jed is later than the cached one"
MoonPrimary_later(orb, jed, st) ==
    IF jed > st.primaryJED[PrimarySlot(orb)]
    THEN PrimaryFilled(PrimarySlot(orb), jed, st)
    ELSE st

\* lines 120-124: the primary is recomputed when jed is not the cached one
MoonPrimary(orb, jed, st) ==
    IF jed # st.primaryJED[PrimarySlot(orb)]
    THEN PrimaryFilled(PrimarySlot(orb), jed, st)
    ELSE st

\* lines 128-129: the primary's position, antedated, and velocity are added
MoonAddPrimary(rel, lt, p, st) ==
    [pos |-> Spherical(rel.pos.lon + st.primaryPos[p]
                           - (st.primaryVel[p] * lt) \div kSecondsPerDay,
                       rel.pos.lat, rel.pos.rad),
     vel |-> rel.vel + st.primaryVel[p], statics |-> st]

computeMoonPositionVelocity(orb, jed, lt, st) ==
    MoonAddPrimary(computeMinorPlanetPositionVelocity(orb, jed, lt), lt, PrimarySlot(orb),
                   MoonPrimary(orb, jed, st))

\* lines 149-150: the Earth's position and velocity at jed are stored
EarthFilled(jed, st) ==
    [st EXCEPT !.earthPos = computeMajorPlanetPositionVelocity(MajorOrbit(kEarth), jed, 0).pos.lon,
               !.earthVel = computeMajorPlanetPositionVelocity(MajorOrbit(kEarth), jed, 0).vel,
               !.earthJED = jed]

\* lines 147-153: the Earth is recomputed when jed is not the cached one
SatelliteEarth(jed, st) == IF jed # st.earthJED THEN EarthFilled(jed, st) ELSE st

\* lines 162-168: the satellite relative to the Earth, where its track says
SatelliteRelative(orb, jed, lt) ==
    [pos |-> Spherical((4 * (jed - lt)) % kTwoPi, orb.track[jed - lt], 1000), vel |-> 4]

\* lines 172-173: the Earth's position, antedated, and velocity are added
SatelliteAddEarth(rel, lt, st) ==
    [pos |-> Spherical(rel.pos.lon + st.earthPos - (st.earthVel * lt) \div kSecondsPerDay,
                       rel.pos.lat, rel.pos.rad),
     vel |-> rel.vel + st.earthVel, statics |-> st]

computeSatellitePositionVelocity(orb, jed, lt, st) ==
    SatelliteAddEarth(SatelliteRelative(orb, jed, lt), lt, SatelliteEarth(jed, st))

\* the position and velocity, and the statics as the call leaves them
WithStatics(pv, st) == [pos |-> pv.pos, vel |-> pv.vel, statics |-> st]

computePositionVelocity(orb, jed, lt, st) ==
    IF orb.kind = "planet" THEN WithStatics(computeMajorPlanetPositionVelocity(orb, jed, lt), st)
    ELSE IF orb.kind = "moon" THEN computeMoonPositionVelocity(orb, jed, lt, st)
    ELSE IF orb.kind \in {"asteroid", "comet"}
    THEN WithStatics(computeMinorPlanetPositionVelocity(orb, jed, lt), st)
    ELSE computeSatellitePositionVelocity(orb, jed, lt, st)

\* one evaluation of position and velocity, with the light time it was given
Evaluation(lt, pv) == [lt |-> lt, pos |-> pv.pos, vel |-> pv.vel]

\* lines 319-320: the fields stored from the last evaluation; evals lists the
\* evaluations of the call in order
EphemerisAt(pv, evals) ==
    [obj |-> [position |-> pv.pos, velocity |-> pv.vel,
              direction |-> [lon |-> pv.pos.lon % kTwoPi, lat |-> pv.pos.lat],
              distance |-> pv.pos.rad],
     statics |-> pv.statics,
     evals |-> evals]

\* line 313: the light time, in seconds, to an object seen from the origin
LightTime(pos) == pos.rad \div kLightKmPerSec

EphemerisSecond(pv0, lt, pv1) == EphemerisAt(pv1, <<Evaluation(0, pv0), Evaluation(lt, pv1)>>)

\* line 319 with the light time left out of the second evaluation
EphemerisLightTime_unretarded(orb, crd, pv0) ==
    EphemerisSecond(pv0, 0, computePositionVelocity(orb, crd.time, 0, pv0.statics))

\* lines 313-319: the light time of the first evaluation and the second
\* evaluation, antedated by it
EphemerisLightTime(orb, crd, pv0) ==
    EphemerisSecond(pv0, LightTime(pv0.pos),
                    computePositionVelocity(orb, crd.time, LightTime(pv0.pos), pv0.statics))

\* the object after computeEphemeris, and the statics after it
computeEphemeris(orb, crd, st) ==
    EphemerisLightTime(orb, crd, computePositionVelocity(orb, crd.time, 0, st))

\* a magnitude: the formula that gave it, the major planet whose polynomial
\* was used (-1: none), and whether it is finite
Magnitude(formula, planet, defined) ==
    [formula |-> formula, planet |-> planet, defined |-> defined]

\* the H-G model: the phase integral is 0 at phase pi, where HUGE_VAL is returned
computeAsteroidMagnitude(phase) == Magnitude("H-G", -1, phase < kPi)

\* the H-K power law
computeCometMagnitude == Magnitude("H-K", -1, TRUE)

\* the standard-magnitude model: HUGE_VAL unless phase < M_PI
computeSatelliteMagnitude(phase) == Magnitude("standard", -1, phase < kPi)

\* lines 227-256: the chain of tests, on the identifier first, then on the type
MagnitudeBranch(kind, id, phase) ==
    IF id \in kSun..kPluto THEN Magnitude("major", id, TRUE)
    ELSE IF id = kLuna THEN computeAsteroidMagnitude(phase)
    ELSE IF kind = "moon" THEN computeAsteroidMagnitude(phase)
    ELSE IF kind = "asteroid" THEN computeAsteroidMagnitude(phase)
    ELSE IF kind = "comet" THEN computeCometMagnitude
    ELSE IF kind = "satellite" THEN computeSatelliteMagnitude(phase)
    ELSE Magnitude("none", -1, FALSE)

\* SSPlanet::computeMagnitude for an object of type kind and identifier id
computeMagnitude(kind, id, phase) == MagnitudeBranch(kind, id, phase)

\* SSPlanet::illumination ( double phase ), in units of 1/Scale
illumination(phase) == Scale + Cos(phase) \div 2

(***************************************************************************)
(* SSCoordinates services                                                  *)
(***************************************************************************)
setTime(crd, time) == [crd EXCEPT !.time = time]

\* transform ( kFundamental, kEquatorial, dir ): the precession between the
\* fundamental epoch and the date is below the angle unit
transformEquatorial(crd, dir) == [lon |-> dir.lon % kTwoPi, lat |-> dir.lat]

\* transform ( kFundamental, kHorizon, dir ): altitude from the spherical
\* triangle pole-zenith-object, azimuth counted on the hour circle; at the
\* pole the horizon frame is the equatorial frame turned by the sidereal time
transformHorizon(crd, dir) ==
    LET H == getSiderealTime(crd.time, crd.lon) - dir.lon
        v == Sin(dir.lat) * Sin(crd.lat) + ((Cos(dir.lat) * Cos(crd.lat)) \div Scale) * Cos(H)
        den == Scale * Scale
        z == IF v >= den THEN 0 ELSE IF v <= -den THEN kPi ELSE ACos(v, den)
    IN IF crd.lat = kHalfPi
       THEN [lon |-> (kPi - H) % kTwoPi, lat |-> dir.lat]
       ELSE [lon |-> (kPi + H) % kTwoPi, lat |-> kHalfPi - z]

(***************************************************************************)
(* SSEvent::riseTransitSet (object wrapper), riseTransitSetSearch,         *)
(* riseTransitSetSearchDay, riseTransitSet (SSPass)                        *)
(***************************************************************************)
riseTransitSetObj(time, crd, o, sign, alt) ==
    LET equ == transformEquatorial(crd, o.direction)
    IN riseTransitSet(time, equ.lon, equ.lat, sign, crd.lon, crd.lat, alt)

RECURSIVE SearchLoop(_, _, _, _, _, _, _)
\* the result of the rest of the loop, the estimate time1 put in front of the
\* estimates it lists
AfterEstimate(time1, r) == [r EXCEPT !.guesses = <<time1>> \o @]

\* line 110 without the test of the iteration count
SearchTest_nocap(orb, crd1, eph, lasttime, time1, sign, alt, i1) ==
    IF Abs(time1 - lasttime) > precision /\ ~isinf(time1)
    THEN AfterEstimate(time1, SearchLoop(orb, crd1, eph.statics, time1, sign, alt, i1))
    ELSE [time |-> time1, coords |-> crd1, obj |-> eph.obj, statics |-> eph.statics,
          iters |-> i1, lasttime |-> lasttime, guesses |-> <<time1>>]

\* line 110: the loop test, lasttime being the time the pass started from and
\* eph the object and the statics as computeEphemeris left them; guesses
\* lists the estimates of all passes through the loop
SearchTest(orb, crd1, eph, lasttime, time1, sign, alt, i1) ==
    IF Abs(time1 - lasttime) > precision /\ ~isinf(time1) /\ i1 < imax
    THEN AfterEstimate(time1, SearchLoop(orb, crd1, eph.statics, time1, sign, alt, i1))
    ELSE [time |-> time1, coords |-> crd1, obj |-> eph.obj, statics |-> eph.statics,
          iters |-> i1, lasttime |-> lasttime, guesses |-> <<time1>>]

\* lines 104-108: one pass through the do-while body
SearchBody(orb, crd1, eph, time, sign, alt, i) ==
    SearchTest(orb, crd1, eph, time, riseTransitSetObj(time, crd1, eph.obj, sign, alt),
               sign, alt, i + 1)

SearchLoop(orb, crd, st, time, sign, alt, i) ==
    SearchBody(orb, setTime(crd, time), computeEphemeris(orb, setTime(crd, time), st),
               time, sign, alt, i)

riseTransitSetSearch(orb, crd, st, time, sign, alt) ==
    SearchLoop(orb, crd, st, time, sign, alt, 0)

\* lines 147-155 with an infinity of the search returned as it is
DayResult_keep(s, first, from1, from2, start, end, sign, searches) ==
    [time |-> IF (s.time > end \/ s.time < start) /\ ~isinf(s.time)
              THEN (IF sign = -1 THEN -INFINITY ELSE INFINITY)
              ELSE s.time,
     coords |-> s.coords, obj |-> s.obj, statics |-> s.statics, searches |-> searches,
     found |-> s.time, first |-> first, from1 |-> from1, from2 |-> from2]

\* lines 147-155: the result of the last search s, kept if it lies in the day;
\* first is the result of the first search, from1 and from2 the times the
\* searches started from
DayResult(s, first, from1, from2, start, end, sign, searches) ==
    [time |-> IF s.time > end \/ s.time < start
              THEN (IF sign = -1 THEN -INFINITY ELSE INFINITY)
              ELSE s.time,
     coords |-> s.coords, obj |-> s.obj, statics |-> s.statics, searches |-> searches,
     found |-> s.time, first |-> first, from1 |-> from1, from2 |-> from2]

\* lines 138-141: the second search, from the middle of an adjacent day
DayRetry(orb, s1, from1, start, end, sign, alt) ==
    IF s1.time > end
    THEN DayResult(riseTransitSetSearch(orb, s1.coords, s1.statics,
                                        start - (kSecondsPerDay \div 2), sign, alt),
                   s1.time, from1, start - (kSecondsPerDay \div 2), start, end, sign, 2)
    ELSE IF s1.time < start
    THEN DayResult(riseTransitSetSearch(orb, s1.coords, s1.statics,
                                        end + (kSecondsPerDay \div 2), sign, alt),
                   s1.time, from1, end + (kSecondsPerDay \div 2), start, end, sign, 2)
    ELSE DayResult(s1, s1.time, from1, from1, start, end, sign, 1)

\* lines 125-130: the first search, from the middle of the local day
DaySearch(orb, crd, st, start, sign, alt) ==
    DayRetry(orb, riseTransitSetSearch(orb, crd, st, start + (kSecondsPerDay \div 2), sign, alt),
             start + (kSecondsPerDay \div 2), start, start + kSecondsPerDay, sign, alt)

riseTransitSetSearchDay(orb, crd, st, today, sign, alt) ==
    DaySearch(orb, crd, st, getLocalMidnight(today), sign, alt)

PassEvent(time, azm, alt) == [time |-> time, azm |-> azm, alt |-> alt]

\* SSPass pass = { 0.0 }
ZeroPass ==
    [rising |-> PassEvent(0, 0, 0), transit |-> PassEvent(0, 0, 0), setting |-> PassEvent(0, 0, 0)]

\* the horizon coordinates of the object as a finite day search left it
PassHorizon(time, hor) == PassEvent(time, hor.lon, hor.lat)

\* one sub-event of the pass, r being the result of its day search
PassPart(r) ==
    IF isinf(r.time) THEN PassEvent(r.time, ZeroPass.rising.azm, ZeroPass.rising.alt)
    ELSE PassHorizon(r.time, transformHorizon(r.coords, r.obj.direction))

\* the context, the object and the statics as the restore leaves them
PassRestored(crd, eph) == [coords |-> crd, obj |-> eph.obj, statics |-> eph.statics]

\* lines 197-198 left out: the context stays where the last search left it
PassRestore_skip(orb, crd, st, savetime) == PassRestored(crd, computeEphemeris(orb, crd, st))

\* lines 197-198: coords.setTime ( savetime ); pObj->computeEphemeris ( coords )
PassRestore(orb, crd, st, savetime) ==
    PassRestored(setTime(crd, savetime), computeEphemeris(orb, setTime(crd, savetime), st))

PassReturn(pass, restored) ==
    [pass |-> pass, coords |-> restored.coords, obj |-> restored.obj,
     statics |-> restored.statics]

\* lines 187-200: the setting search, the restore, the return
PassSetting(orb, r, t, s, savetime) ==
    PassReturn([rising |-> PassPart(r), transit |-> PassPart(t), setting |-> PassPart(s)],
               PassRestore(orb, s.coords, s.statics, savetime))

\* lines 179-185: the transit search, always to altitude 0
PassTransit(orb, r, t, today, alt, savetime) ==
    PassSetting(orb, r, t,
                riseTransitSetSearchDay(orb, t.coords, t.statics, today, kSet, alt), savetime)

\* lines 171-177: the rising search
PassRising(orb, r, today, alt, savetime) ==
    PassTransit(orb, r, riseTransitSetSearchDay(orb, r.coords, r.statics, today, kTransit, 0),
                today, alt, savetime)

riseTransitSetPass(orb, crd, st, today, alt) ==
    PassRising(orb, riseTransitSetSearchDay(orb, crd, st, today, kRise, alt),
               today, alt, crd.time)

(***************************************************************************)
(* The callers of the event solver: inputs and state                       *)
(***************************************************************************)
Signs == {kRise, kTransit, kSet}

\* horizon altitudes: 0, -50 arcminutes, 60 degrees
HorizonAlts == {0, -3, 240}

\* observer latitudes 40 and 80 degrees north, longitudes 0 and 75 degrees east
Lats == {160, 320}

Lons == {0, 300}

\* arguments of the calls that take raw angles
ArcLats == {-320, -160, 0, 160, 320}

ArcDecs == {-240, -100, 0, 100, 240}

\* -90 and -18 degrees, -50 arcminutes, 0, 30, 60 and 90 degrees
ArcAlts == {-359, -72, -3, 0, 120, 240, 359}

RightAscensions == {0, 359, 800, 1435}

\* phase angles from 0 to pi
Phases == {0, 100, kHalfPi, 500, kPi}

\* three fixed stars (on the equator, 60 degrees north, 60 degrees south),
\* a body moving like the Sun, one moving like the Moon (384400 km away), a
\* body that circles the sky in a day and a half, and a moon that circles its
\* primary in a month
Orbits ==
    {[kind |-> "planet", ra0 |-> 500, rate |-> 0, dec |-> 0, dist |-> kKmPerAU],
     [kind |-> "planet", ra0 |-> 500, rate |-> 0, dec |-> 240, dist |-> kKmPerAU],
     [kind |-> "planet", ra0 |-> 500, rate |-> 0, dec |-> -240, dist |-> kKmPerAU],
     [kind |-> "planet", ra0 |-> 1, rate |-> 4, dec |-> 0, dist |-> kKmPerAU],
     [kind |-> "planet", ra0 |-> 216, rate |-> 52, dec |-> 0, dist |-> 384400],
     [kind |-> "planet", ra0 |-> 300, rate |-> 1000, dec |-> 0, dist |-> 384400],
     [kind |-> "moon", ra0 |-> 700, rate |-> 48, dec |-> 0, dist |-> kKmPerAU,
      id |-> kIo]}

\* times of day 2: shortly after midnight and in the afternoon
Times == {2 * kSecondsPerDay + 100, 2 * kSecondsPerDay + 50000}

\* the last of the further local days on which a day search is asked for
MaxDay == 8

\* the days searched: the days of Times, and the days after them up to MaxDay,
\* over which the event time of a moving object drifts across midnight
DayTimes == Times \cup {d * kSecondsPerDay + 100 : d \in 3..MaxDay}

\* a time of day 1, at which a stale ephemeris was computed
StaleTime == kSecondsPerDay + 13600

\* times for which the primary's cache may have been filled by earlier calls
\* of the process: a time of day 1, and noon of day 2, where every search of
\* day 2 starts
CacheTimes == {StaleTime, 2 * kSecondsPerDay + (kSecondsPerDay \div 2)}

\* the statics after the primary was last computed for time t
FilledAt(t) == PrimaryFilled(kJupiter, t, NewStatics)

NoFrame == [start |-> 0]

\* the caller is still preparing the context and the object: no solver call
\* has been made yet
Preparing == pc = "event" /\ ret.op \in {"none", "setTime", "computeEphemeris"}

\* the statics matter to moons only: for the other objects they start as the
\* program starts
InitEvent ==
    /\ coords \in {[time |-> t, lon |-> lo, lat |-> la] : t \in Times, lo \in Lons, la \in Lats}
    /\ orbit \in Orbits
    /\ \E e \in {INFINITY, coords.time, StaleTime},
          st \in {NewStatics} \cup {FilledAt(t) : t \in CacheTimes} :
          /\ orbit.kind # "moon" => st = NewStatics
          /\ ephemJed = e
          /\ obj = IF e = INFINITY THEN NewPlanet
                   ELSE computeEphemeris(orbit, setTime(coords, e), st).obj
          /\ statics = IF e = INFINITY THEN st
                       ELSE computeEphemeris(orbit, setTime(coords, e), st).statics
    /\ ret = [op |-> "none"]
    /\ pc = "event"
    /\ fsp = NoFrame
    /\ passes = << >>

\* the caller moves the context to another time without recomputing the object
SetTime(t) ==
    /\ Preparing
    /\ coords' = setTime(coords, t)
    /\ ret' = [op |-> "setTime"]
    /\ UNCHANGED <<orbit, obj, ephemJed, statics, pc, fsp, passes>>

ComputeEphemeris ==
    /\ Preparing
    /\ obj' = computeEphemeris(orbit, coords, statics).obj
    /\ statics' = computeEphemeris(orbit, coords, statics).statics
    /\ ephemJed' = coords.time
    /\ ret' = [op |-> "computeEphemeris"]
    /\ UNCHANGED <<coords, orbit, pc, fsp, passes>>

\* the calls that take raw angles need no object: they are made as the
\* program starts
CallSemiDiurnalArc(lat, dec, alt) ==
    /\ pc = "event"
    /\ ret.op = "none"
    /\ obj = NewPlanet
    /\ statics = NewStatics
    /\ ret' = [op |-> "semiDiurnalArc", lat |-> lat, dec |-> dec, alt |-> alt,
               value |-> semiDiurnalArc(lat, dec, alt)]
    /\ UNCHANGED <<coords, orbit, obj, ephemJed, statics, pc, fsp, passes>>

CallIllumination(phase) ==
    /\ pc = "event"
    /\ ret.op = "none"
    /\ obj = NewPlanet
    /\ statics = NewStatics
    /\ ret' = [op |-> "illumination", phase |-> phase, value |-> illumination(phase)]
    /\ UNCHANGED <<coords, orbit, obj, ephemJed, statics, pc, fsp, passes>>

\* the overload that takes raw angles
CallRiseTransitSetAngles(time, ra, dec, sign, lon, lat, alt) ==
    /\ pc = "event"
    /\ ret.op = "none"
    /\ obj = NewPlanet
    /\ statics = NewStatics
    /\ ret' = [op |-> "riseTransitSet", time |-> time, sign |-> sign, alt |-> alt,
               ra |-> ra, dec |-> dec, lon |-> lon, lat |-> lat,
               value |-> riseTransitSet(time, ra, dec, sign, lon, lat, alt)]
    /\ UNCHANGED <<coords, orbit, obj, ephemJed, statics, pc, fsp, passes>>

\* the overload that takes the context and the object
CallRiseTransitSet(time, sign, alt) ==
    /\ Preparing
    /\ obj # NewPlanet
    /\ LET equ == transformEquatorial(coords, obj.direction)
       IN ret' = [op |-> "riseTransitSet", time |-> time, sign |-> sign, alt |-> alt,
                  ra |-> equ.lon, dec |-> equ.lat, lon |-> coords.lon, lat |-> coords.lat,
                  value |-> riseTransitSetObj(time, coords, obj, sign, alt)]
    /\ UNCHANGED <<coords, orbit, obj, ephemJed, statics, pc, fsp, passes>>

CallRiseTransitSetSearch(time, sign, alt) ==
    /\ Preparing
    /\ LET r == riseTransitSetSearch(orbit, coords, statics, time, sign, alt)
       IN /\ coords' = r.coords
          /\ obj' = r.obj
          /\ statics' = r.statics
          /\ ephemJed' = r.coords.time
          /\ ret' = [op |-> "riseTransitSetSearch", time |-> time, sign |-> sign, alt |-> alt,
                     value |-> r.time, iters |-> r.iters, lasttime |-> r.lasttime,
                     guesses |-> r.guesses,
                     pre |-> [time |-> coords.time, obj |-> obj]]
    /\ UNCHANGED <<orbit, pc, fsp, passes>>

CallRiseTransitSetSearchDay(today, sign, alt) ==
    /\ Preparing
    /\ today \in Times \/ ret.op = "none"
    /\ LET r == riseTransitSetSearchDay(orbit, coords, statics, today, sign, alt)
       IN /\ coords' = r.coords
          /\ obj' = r.obj
          /\ statics' = r.statics
          /\ ephemJed' = r.coords.time
          /\ ret' = [op |-> "riseTransitSetSearchDay", today |-> today, sign |-> sign,
                     alt |-> alt, value |-> r.time, searches |-> r.searches,
                     found |-> r.found, first |-> r.first, from1 |-> r.from1,
                     from2 |-> r.from2, pre |-> [time |-> coords.time, obj |-> obj]]
    /\ UNCHANGED <<orbit, pc, fsp, passes>>

CallRiseTransitSetPass(today, alt) ==
    /\ Preparing
    /\ LET r == riseTransitSetPass(orbit, coords, statics, today, alt)
       IN /\ coords' = r.coords
          /\ obj' = r.obj
          /\ statics' = r.statics
          /\ ephemJed' = r.coords.time
          /\ ret' = [op |-> "riseTransitSetPass", today |-> today, alt |-> alt,
                     value |-> r.pass,
                     pre |-> [time |-> coords.time, obj |-> obj, statics |-> statics]]
    /\ UNCHANGED <<orbit, pc, fsp, passes>>

\* the same call once more, nothing else having touched the context
CallRiseTransitSetPassAgain ==
    /\ pc = "event"
    /\ ret.op = "riseTransitSetPass"
    /\ LET r == riseTransitSetPass(orbit, coords, statics, ret.today, ret.alt)
       IN /\ coords' = r.coords
          /\ obj' = r.obj
          /\ statics' = r.statics
          /\ ephemJed' = r.coords.time
          /\ ret' = [op |-> "riseTransitSetPassAgain", today |-> ret.today, alt |-> ret.alt,
                     first |-> ret.value, value |-> r.pass,
                     pre |-> [time |-> coords.time, obj |-> obj, statics |-> statics],
                     before |-> ret.pre]
    /\ UNCHANGED <<orbit, pc, fsp, passes>>

NextEvent ==
    \/ \E t \in Times : SetTime(t)
    \/ ComputeEphemeris
    \/ \E lat \in ArcLats, dec \in ArcDecs, alt \in ArcAlts :
          CallSemiDiurnalArc(lat, dec, alt)
    \/ \E phase \in Phases : CallIllumination(phase)
    \/ \E t \in Times, ra \in RightAscensions, dec \in ArcDecs, sign \in Signs,
          lon \in Lons, lat \in Lats, alt \in HorizonAlts :
          CallRiseTransitSetAngles(t, ra, dec, sign, lon, lat, alt)
    \/ \E t \in Times, sign \in Signs, alt \in HorizonAlts : CallRiseTransitSet(t, sign, alt)
    \/ \E t \in Times, sign \in Signs, alt \in HorizonAlts :
          CallRiseTransitSetSearch(t, sign, alt)
    \/ \E t \in DayTimes, sign \in Signs, alt \in HorizonAlts :
          CallRiseTransitSetSearchDay(t, sign, alt)
    \/ \E t \in Times, alt \in HorizonAlts : CallRiseTransitSetPass(t, alt)
    \/ CallRiseTransitSetPassAgain

Spec == InitEvent /\ [][NextEvent]_vars

(***************************************************************************)
(* Properties of the event solver                                          *)
(***************************************************************************)
\* C1: when the pass-circumstances function riseTransitSet(today, coords,
\* pObj, alt) returns, the context's time is the time it had immediately
\* before the call, whatever the three day searches returned.
C1_PassRestoresTime ==
    ret.op = "riseTransitSetPass" => coords.time = ret.pre.time

\* a pass call whose rise search ended infinite and whose transit search
\* converged to a finite time other than the context's time before the call
C1_Witness ==
    /\ ret.op = "riseTransitSetPass"
    /\ isinf(ret.value.rising.time)
    /\ ~isinf(ret.value.transit.time)
    /\ ret.value.transit.time # ret.pre.time

\* C3 as claimed: after the pass-circumstances function returns, the
\* object's ephemeris state (position, velocity, direction, distance) is the
\* one it had immediately before the call, whatever that state was.
C3_PassRestoresEphemeris ==
    ret.op = "riseTransitSetPass" => obj = ret.pre.obj

\* C4 as claimed: riseTransitSetSearchDay returns +infinity, -infinity or a
\* time t with localMidnight <= t < localMidnight + 1 day.
C4_DayResultInHalfOpenDay ==
    ret.op = "riseTransitSetSearchDay" =>
        \/ isinf(ret.value)
        \/ /\ getLocalMidnight(ret.today) <= ret.value
           /\ ret.value < getLocalMidnight(ret.today) + kSecondsPerDay

\* C5: the closed-form riseTransitSet returns +infinity exactly when the
\* semi-diurnal arc is pi and sign is not 0, -infinity exactly when the arc is
\* 0, and a finite time in every other case.
C5_InfinityExactlyOnArc ==
    ret.op = "riseTransitSet" =>
        LET ha == semiDiurnalArc(ret.lat, ret.dec, ret.alt)
        IN /\ (ret.value = INFINITY) <=> (ha = kPi /\ ret.sign # 0)
           /\ (ret.value = -INFINITY) <=> (ha = 0)
           /\ (~(ha = kPi /\ ret.sign # 0) /\ ha # 0) => ~isinf(ret.value)

\* a never-setting object queried for its setting: +infinity
C5_Witness ==
    /\ ret.op = "riseTransitSet"
    /\ ret.sign = kSet
    /\ CosHaNum(ret.lat, ret.dec, ret.alt) <= -CosHaDen(ret.lat, ret.dec)
    /\ ret.value = INFINITY

\* C6 as claimed: for sign = 0 the closed-form riseTransitSet returns the
\* time at which the object's hour angle (local sidereal time minus right
\* ascension) is 0, for every horizon altitude.
C6_TransitForEveryAltitude ==
    (ret.op = "riseTransitSet" /\ ret.sign = kTransit) =>
        /\ ~isinf(ret.value)
        /\ getSiderealTime(ret.value, ret.lon) = ret.ra

\* C7: with cos(dec) cos(lat) > 0, semiDiurnalArc returns 0 when the cosine
\* of the hour angle is >= 1, pi when it is <= -1, and otherwise an angle
\* strictly between 0 and pi whose cosine is that quotient (to the grid: the
\* quotient lies between the cosines of the angle and of the next angle).
C7_SemiDiurnalArcCases ==
    ret.op = "semiDiurnalArc" =>
        LET num == CosHaNum(ret.lat, ret.dec, ret.alt)
            den == CosHaDen(ret.lat, ret.dec)
            q == (num * Scale) \div den
        IN den > 0 =>
              /\ num >= den => ret.value = 0
              /\ num <= -den => ret.value = kPi
              /\ (-den < num /\ num < den) =>
                    /\ 0 < ret.value /\ ret.value < kPi
                    /\ CosTab[ret.value] >= q \/ ret.value = 1
                    /\ CosTab[ret.value + 1] < q \/ ret.value = kPi - 1

\* an object that rises and sets: the arc is strictly between 0 and pi
C7_Witness ==
    /\ ret.op = "semiDiurnalArc"
    /\ CosHaDen(ret.lat, ret.dec) > 0
    /\ -CosHaDen(ret.lat, ret.dec) < CosHaNum(ret.lat, ret.dec, ret.alt)
    /\ CosHaNum(ret.lat, ret.dec, ret.alt) < CosHaDen(ret.lat, ret.dec)
    /\ 1 < ret.value /\ ret.value < kPi - 1

\* C8: a finite result of the closed-form riseTransitSet differs from the
\* input time by at most half a day.
C8_WithinHalfDay ==
    (ret.op = "riseTransitSet" /\ ~isinf(ret.value)) =>
        2 * Abs(ret.value - ret.time) <= kSecondsPerDay

\* a finite result for which the unreduced rotation angle exceeds pi
C8_Witness ==
    /\ ret.op = "riseTransitSet"
    /\ ~isinf(ret.value)
    /\ Abs(ret.ra - getSiderealTime(ret.time, ret.lon)
           + ret.sign * semiDiurnalArc(ret.lat, ret.dec, ret.alt)) > kPi

\* C11: two successive calls of the pass-circumstances function with the same
\* day, object and altitude, nothing else touching the context, return the
\* same pass, whatever the statics held before the first call.
C11_PassIdempotent ==
    ret.op = "riseTransitSetPassAgain" => ret.value = ret.first

\* two calls for a moon that rises and sets on the day, the primary's cache
\* holding another time before the second call than before the first
C11_Witness ==
    /\ ret.op = "riseTransitSetPassAgain"
    /\ orbit.kind = "moon"
    /\ ~isinf(ret.value.rising.time)
    /\ ~isinf(ret.value.setting.time)
    /\ ret.before.statics # ret.pre.statics

\* C12 as claimed: when riseTransitSetSearch returns a finite time, the
\* context's time is the returned time and the object's ephemeris is the one
\* computed for it.
C12_ContextAtReturnedTime ==
    (ret.op = "riseTransitSetSearch" /\ ~isinf(ret.value)) =>
        /\ coords.time = ret.value
        /\ ephemJed = ret.value
        /\ obj = computeEphemeris(orbit, setTime(coords, ret.value), statics).obj

\* C13 as claimed: illumination(phase) is (1 + cos(phase)) / 2, a fraction
\* between 0 and 1.
C13_IlluminationFraction ==
    ret.op = "illumination" =>
        /\ ret.value = (Scale + Cos(ret.phase)) \div 2
        /\ 0 <= ret.value /\ ret.value <= Scale

\* C16: riseTransitSetSearch makes at least 1 and at most imax = 10 passes
\* through its loop; it goes on after a pass exactly when the new estimate is
\* finite, differs from the previous one by more than 1 second and fewer than
\* 10 passes were made; it returns the estimate of its last pass.
C16_SearchIterations ==
    ret.op = "riseTransitSetSearch" =>
        LET g == <<ret.time>> \o ret.guesses
            n == ret.iters
        IN /\ 1 <= n /\ n <= imax
           /\ Len(ret.guesses) = n
           /\ ret.value = g[n + 1]
           /\ \A k \in 1..n :
                 (k < n) <=> /\ k < imax
                             /\ ~isinf(g[k + 1])
                             /\ Abs(g[k + 1] - g[k]) > precision

\* a search stopped by the cap: ten passes, the last two estimates still more
\* than a second apart
C16_Witness ==
    /\ ret.op = "riseTransitSetSearch"
    /\ ret.iters = imax
    /\ ~isinf(ret.value)
    /\ Abs(ret.value - ret.lasttime) > precision

\* C17: riseTransitSetSearchDay makes one search from local noon of the day,
\* and a second one exactly when the first result is after the day's end
\* (then from noon of the day before) or before its start (then from noon of
\* the day after); when the last result, finite or not, lies outside the day,
\* it returns -infinity for a rise query and +infinity otherwise.
C17_DaySearches ==
    ret.op = "riseTransitSetSearchDay" =>
        LET start == getLocalMidnight(ret.today)
            end == start + kSecondsPerDay
            half == kSecondsPerDay \div 2
        IN /\ ret.searches \in {1, 2}
           /\ ret.from1 = start + half
           /\ (ret.searches = 2) <=> (ret.first > end \/ ret.first < start)
           /\ ret.first > end => ret.from2 = start - half
           /\ ret.first < start => ret.from2 = end + half
           /\ ret.searches = 1 => ret.found = ret.first
           /\ ret.value = IF ret.found > end \/ ret.found < start
                          THEN (IF ret.sign = kRise THEN -INFINITY ELSE INFINITY)
                          ELSE ret.found

\* a rise query for an object that never sets: both searches give +infinity
\* and the day search returns -infinity
C17_Witness ==
    /\ ret.op = "riseTransitSetSearchDay"
    /\ ret.sign = kRise
    /\ ret.searches = 2
    /\ ret.first = INFINITY
    /\ ret.found = INFINITY
    /\ ret.value = -INFINITY

\* C18 as claimed: riseTransitSetSearchDay returns +infinity only when the
\* object never sets (the search gave +infinity) or the event found falls
\* after the day, and -infinity only when the object never rises (the search
\* gave -infinity) or the event found falls before the day.
C18_SentinelMeaning ==
    ret.op = "riseTransitSetSearchDay" =>
        LET start == getLocalMidnight(ret.today)
            end == start + kSecondsPerDay
        IN /\ ret.value = INFINITY => ret.found > end
           /\ ret.value = -INFINITY => ret.found < start

\* the rotation the closed-form solver asks for at time t, the object's
\* ephemeris being computed for t: 0 when the event of ret.sign happens at t
ThetaAt(t, ha) ==
    modPi(transformEquatorial(coords,
              computeEphemeris(orbit, setTime(coords, t), statics).obj.direction).lon
          - getSiderealTime(t, coords.lon) + ret.sign * ha)

\* the minutes of the day of ret.today at which the event of ret.sign happens:
\* a crossing of the horizon altitude needs an object that both rises and
\* sets, a crossing of the meridian (sign 0) happens for every object
EventMinutes ==
    LET start == getLocalMidnight(ret.today)
        ha == semiDiurnalArc(coords.lat, orbit.dec, ret.alt)
    IN IF ret.sign # 0 /\ (ha = kPi \/ ha = 0) THEN {}
       ELSE {k \in 0..(kMinutesPerDay - 1) : ThetaAt(start + 60 * k, ha) = 0}

\* C19 as claimed: riseTransitSetSearchDay returns an infinity only if the
\* event does not happen at any time of the local day.
C19_InfinityOnlyIfNoEvent ==
    (ret.op = "riseTransitSetSearchDay" /\ isinf(ret.value)) => EventMinutes = {}

\* the same for the crossings of the horizon altitude alone (rise and set
\* queries), where no never-rising object has an event
HorizonEventsFound ==
    (ret.op = "riseTransitSetSearchDay" /\ ret.sign # 0 /\ isinf(ret.value))
        => EventMinutes = {}

(***************************************************************************)
(* SSEvent::findSatellitePasses                                            *)
(*                                                                         *)
(* fsp holds the locals of the call in progress; fsp.samples lists the     *)
(* (time, altitude) samples the scan has taken so far.  The satellite's    *)
(* track is revealed one propagation at a time: the altitude at a time not *)
(* propagated to before is any of SatAlts, and stays what it was found to  *)
(* be.  The observer stands at the pole.                                   *)
(***************************************************************************)
\* altitudes of -15, -5, 5 and 15 degrees
SatAlts == {-60, -20, 20, 60}

\* minimum altitudes of -10, 5 and 10 degrees
MinAlts == {-40, 20, 40}

StartTimes == {1, 3}

\* context time before the call: inside the windows that start at 1 and hold
\* two samples or more, outside every window that starts at 3
SaveTimes == {2}

\* longest scan window, in samples
MaxScan == 5

\* a pass left in the caller's vector by an earlier use
StalePass ==
    [rising |-> PassEvent(-3, 0, 60), transit |-> PassEvent(-2, 0, 60),
     setting |-> PassEvent(-1, 0, -60)]

\* lines 212-218: the locals at loop entry
findSatellitePassesEntry(crd, start, stop, minAlt) ==
    [start |-> start, stop |-> stop, minAlt |-> minAlt, savetime |-> crd.time,
     time |-> start, step |-> 0, pass |-> ZeroPass, azm |-> 0, alt |-> 0, maxAlt |-> 0,
     oldAlt |-> 0, hor |-> [lon |-> INFINITY, lat |-> INFINITY], samples |-> << >>]

AfterFirst_always(f) == TRUE

\* line 236: the sample is not the first of the scan
AfterFirst(f) == f.time > f.start

\* lines 226-273 and the loop increment: one sample with horizon coordinates hor
findSatellitePassesBody(f, hor, ps) ==
    LET time == f.time
        azm == hor.lon
        alt == hor.lat
        step == IF hor.lat > -1 * kDegPerRad * UnitsPerRad
                THEN kSecondsPerDay \div kSecondsPerDay
                ELSE kSecondsPerDay \div kMinutesPerDay
        later == AfterFirst(f)
        rises == later /\ alt > f.minAlt /\ f.oldAlt < f.minAlt
        pass1 == IF rises THEN [f.pass EXCEPT !.rising = PassEvent(time, azm, alt)] ELSE f.pass
        peaks == later /\ alt > f.maxAlt
        pass2 == IF peaks THEN [pass1 EXCEPT !.transit = PassEvent(time, azm, alt)] ELSE pass1
        maxAlt2 == IF peaks THEN alt ELSE f.maxAlt
        sets == later /\ f.oldAlt > f.minAlt /\ alt < f.minAlt
        pass3 == IF sets THEN [pass2 EXCEPT !.setting = PassEvent(time, azm, alt)] ELSE pass2
    IN [fsp |-> [f EXCEPT !.hor = hor, !.azm = azm, !.alt = alt, !.step = step,
                          !.pass = pass3, !.maxAlt = IF sets THEN 0 ELSE maxAlt2,
                          !.oldAlt = alt, !.time = time + step,
                          !.samples = Append(@, [time |-> time, alt |-> alt])],
        passes |-> IF sets THEN Append(ps, pass3) ELSE ps]

findSatellitePassesRestore_last(crd, f) == crd

\* line 278
findSatellitePassesRestore(crd, f) == setTime(crd, f.savetime)

\* the track with the altitude at time t revealed as a
Reveal(orb, t, a) == [orb EXCEPT !.track = (t :> a) @@ @]

Revealable(orb, t, a) == t \in DOMAIN orb.track => a = orb.track[t]

InitSat ==
    /\ \E t \in SaveTimes : coords = [time |-> t, lon |-> 0, lat |-> kHalfPi]
    /\ \/ /\ orbit = [kind |-> "satellite", track |-> << >>]
          /\ obj = NewPlanet
          /\ statics = NewStatics
          /\ ephemJed = INFINITY
       \/ \E a \in SatAlts :
             /\ orbit = [kind |-> "satellite", track |-> (coords.time :> a)]
             /\ obj = computeEphemeris(orbit, coords, NewStatics).obj
             /\ statics = computeEphemeris(orbit, coords, NewStatics).statics
             /\ ephemJed = coords.time
    /\ ret = [op |-> "none"]
    /\ pc = "idle"
    /\ fsp = NoFrame
    /\ passes \in {<< >>, <<StalePass>>}

FSP_Call(start, stop, minAlt) ==
    /\ pc = "idle"
    /\ fsp' = findSatellitePassesEntry(coords, start, stop, minAlt)
    /\ ret' = [op |-> "scanning", pre |-> [time |-> coords.time, obj |-> obj, passes |-> passes]]
    /\ pc' = "scan"
    /\ UNCHANGED <<coords, orbit, obj, ephemJed, statics, passes>>

\* one turn of the for loop, the satellite being at altitude a
FSP_Sample(a) ==
    /\ pc = "scan"
    /\ fsp.time <= fsp.stop
    /\ Revealable(orbit, fsp.time, a)
    /\ orbit' = Reveal(orbit, fsp.time, a)
    /\ coords' = setTime(coords, fsp.time)
    /\ obj' = computeEphemeris(orbit', coords', statics).obj
    /\ statics' = computeEphemeris(orbit', coords', statics).statics
    /\ ephemJed' = coords'.time
    /\ LET r == findSatellitePassesBody(fsp, transformHorizon(coords', obj'.direction), passes)
       IN /\ fsp' = r.fsp
          /\ passes' = r.passes
    /\ UNCHANGED <<ret, pc>>

\* loop exit: restore the context, recompute the satellite, return the count
FSP_Return(a) ==
    /\ pc = "scan"
    /\ fsp.time > fsp.stop
    /\ coords' = findSatellitePassesRestore(coords, fsp)
    /\ Revealable(orbit, coords'.time, a)
    /\ orbit' = Reveal(orbit, coords'.time, a)
    /\ obj' = computeEphemeris(orbit', coords', statics).obj
    /\ statics' = computeEphemeris(orbit', coords', statics).statics
    /\ ephemJed' = coords'.time
    /\ ret' = [op |-> "findSatellitePasses", pre |-> ret.pre, value |-> Len(passes)]
    /\ pc' = "done"
    /\ UNCHANGED <<fsp, passes>>

NextSat ==
    \/ \E start \in StartTimes, n \in 0..MaxScan, minAlt \in MinAlts :
          FSP_Call(start, start + n - 1, minAlt)
    \/ \E a \in SatAlts : FSP_Sample(a)
    \/ \E a \in SatAlts : FSP_Return(a)

SpecSat == InitSat /\ [][NextSat]_vars

\* the passes appended by the call in progress or just returned
Appended ==
    IF pc \in {"scan", "done"}
    THEN {i \in 1..Len(passes) : i > Len(ret.pre.passes)}
    ELSE {}


\* the samples after the first at which the scan saw a setting crossing: the
\* sample before above minAlt, this one below it
SettingCrossings ==
    IF pc \in {"scan", "done"}
    THEN {k \in 2..Len(fsp.samples) : /\ fsp.samples[k - 1].alt > fsp.minAlt
                                      /\ fsp.samples[k].alt < fsp.minAlt}
    ELSE {}

(***************************************************************************)
(* Properties of findSatellitePasses                                       *)
(***************************************************************************)
\* C2: when findSatellitePasses returns, the context's time is its value
\* before the call and the last computeEphemeris of the satellite was run at
\* that time, for every window (an empty one included) and altitude profile.
C2_FinderRestoresTime ==
    pc = "done" => (coords.time = ret.pre.time /\ ephemJed = ret.pre.time)

\* a returned scan that sampled the satellite, the last time at a time other
\* than the context's time before the call
C2_Witness ==
    /\ pc = "done"
    /\ Len(fsp.samples) > 0
    /\ fsp.samples[Len(fsp.samples)].time # ret.pre.time

\* C9 as claimed: for every pass findSatellitePasses appends,
\* rising.time < transit.time < setting.time.
C9_PassTimesOrdered ==
    \A i \in Appended :
        /\ passes[i].rising.time < passes[i].transit.time
        /\ passes[i].transit.time < passes[i].setting.time

\* C10 as claimed: for every pass findSatellitePasses appends, the recorded
\* transit is a sample taken between the pass's rising and setting samples,
\* no sample between them is higher, and its altitude is >= minAltitude.
C10_TransitIsPeakOfPass ==
    \A i \in Appended :
        LET p == passes[i]
            within == {k \in 1..Len(fsp.samples) :
                          /\ p.rising.time <= fsp.samples[k].time
                          /\ fsp.samples[k].time <= p.setting.time}
        IN /\ p.transit.alt >= fsp.minAlt
           /\ \E k \in within : /\ fsp.samples[k].time = p.transit.time
                                /\ fsp.samples[k].alt = p.transit.alt
           /\ \A k \in within : fsp.samples[k].alt <= p.transit.alt

\* C14 as claimed: the count findSatellitePasses returns is the number of
\* passes detected by this call's scan, and the output list holds exactly
\* those passes, in increasing order of setting time, whatever it held when
\* the call was made.
C14_CountAndListOfThisScan ==
    pc = "done" =>
        /\ ret.value = Cardinality(SettingCrossings)
        /\ Len(passes) = Cardinality(SettingCrossings)
        /\ \A i, j \in 1..Len(passes) :
              i < j => passes[i].setting.time < passes[j].setting.time

\* C15 as claimed: the step to the next sample is 1 second when the current
\* sample's altitude is above -1 degree (-kTwoPi/360) and 1 minute when it is
\* at or below -1 degree.
C15_StepByAltitude ==
    (pc \in {"scan", "done"} /\ Len(fsp.samples) > 0) =>
        fsp.step = IF fsp.alt * 360 > -kTwoPi
                   THEN kSecondsPerDay \div kSecondsPerDay
                   ELSE kSecondsPerDay \div kMinutesPerDay

\* C20: findSatellitePasses appends exactly one pass per setting crossing
\* among the samples after the first (sample before above minAltitude, this
\* one below it), its setting event being that sample, and nothing else: the
\* first sample appends nothing, nor does a pass still above minAltitude at
\* the last sample.
C20_OnePassPerSettingCrossing ==
    /\ Cardinality(Appended) = Cardinality(SettingCrossings)
    /\ {passes[i].setting.time : i \in Appended}
           = {fsp.samples[k].time : k \in SettingCrossings}
    /\ \A i \in Appended :
          \E k \in SettingCrossings : /\ fsp.samples[k].time = passes[i].setting.time
                                      /\ fsp.samples[k].alt = passes[i].setting.alt

\* a returned scan whose first sample lies below a negative minAltitude (the
\* initial previous altitude 0 is above it), that appended a pass at a later
\* setting crossing, and whose last sample is above minAltitude after a
\* rising: one pass for three candidates
C20_Witness ==
    /\ pc = "done"
    /\ Len(fsp.samples) >= 4
    /\ fsp.minAlt < 0
    /\ fsp.samples[1].alt < fsp.minAlt
    /\ Cardinality(SettingCrossings) = 1
    /\ Cardinality(Appended) = 1
    /\ fsp.samples[Len(fsp.samples) - 1].alt < fsp.minAlt
    /\ fsp.samples[Len(fsp.samples)].alt > fsp.minAlt

\* the samples after the first at which the sampled altitude completes a
\* transition to side `to` of minAltitude (1 above, -1 below) from the other
\* side, the samples in between, if any, being exactly at minAltitude
Side(alt) == IF alt > fsp.minAlt THEN 1 ELSE IF alt < fsp.minAlt THEN -1 ELSE 0

Transitions(to) ==
    IF pc \in {"scan", "done"}
    THEN {k \in 2..Len(fsp.samples) :
             /\ Side(fsp.samples[k].alt) = to
             /\ \E j \in 1..(k - 1) :
                   /\ Side(fsp.samples[j].alt) = -to
                   /\ \A i \in (j + 1)..(k - 1) : Side(fsp.samples[i].alt) = 0}
    ELSE {}

\* C26 as claimed: every transition of the sampled altitude from above
\* minAltitude to below it finalizes a pass, and every transition from below
\* to above is recorded as a rising (the pass in progress holds the latest
\* one), also when samples in between are exactly at minAltitude.
C26_EveryTransitionRecorded ==
    /\ Cardinality(Appended) = Cardinality(Transitions(-1))
    /\ \A k \in Transitions(1) :
          (\A j \in Transitions(1) : j <= k) => fsp.pass.rising.time = fsp.samples[k].time

\* C27 as claimed: every pass findSatellitePasses appends has a rising time
\* that is the time of a sample after the first (a time in (start, stop]),
\* later than the setting time of the pass appended before it.
C27_RisingOfSamePass ==
    \A i \in Appended :
        /\ \E k \in 2..Len(fsp.samples) : fsp.samples[k].time = passes[i].rising.time
        /\ (i - 1) \in Appended => passes[i].rising.time > passes[i - 1].setting.time

(***************************************************************************)
(* Sequences of ephemeris calls                                            *)
(*                                                                         *)
(* One thread calls computePositionVelocity, computeEphemeris and          *)
(* computeMagnitude for objects of every category, at times that are whole *)
(* days (time 0 included), the statics being those the calls before left.  *)
(***************************************************************************)
\* query times: time 0 and the two days after it
PlanetTimes == {0, kSecondsPerDay, 2 * kSecondsPerDay}

\* light times given to computePositionVelocity: none, and a day
LightTimes == {0, kSecondsPerDay}

\* Jupiter and Saturn, a moon of each, an asteroid and a comet that cross the
\* sky fast, far from the observer, and a satellite
PlanetObjects ==
    {Primary, Eccentric,
     [kind |-> "moon", ra0 |-> 700, rate |-> 48, dec |-> 0, dist |-> kKmPerAU, id |-> kIo],
     [kind |-> "moon", ra0 |-> 900, rate |-> 90, dec |-> 0, dist |-> kKmPerAU, id |-> kTitan],
     [kind |-> "asteroid", ra0 |-> 40, rate |-> 1000, dec |-> 100, dist |-> kKmPerAU],
     [kind |-> "comet", ra0 |-> 80, rate |-> 700, dec |-> -100, dist |-> kKmPerAU],
     [kind |-> "satellite",
      track |-> [t \in {jed - lt : jed \in PlanetTimes, lt \in LightTimes} |->
                    20 * DaysAt(t)]]}

\* object types and identifiers given to computeMagnitude: identifiers of
\* major planets, of the Moon, of a moon of Jupiter, and a catalogue number
MagKinds == {"planet", "moon", "asteroid", "comet", "satellite"}

MagIds == {kSun, kMercury, kPluto, kLuna, kIo, 2000}

InitPlanet ==
    /\ coords = [time |-> 0, lon |-> 0, lat |-> 160]
    /\ orbit = Primary
    /\ obj = NewPlanet
    /\ ephemJed = INFINITY
    /\ statics = NewStatics
    /\ ret = [op |-> "none"]
    /\ pc = "planet"
    /\ fsp = NoFrame
    /\ passes = << >>

CallComputePositionVelocity(o, jed, lt) ==
    /\ pc = "planet"
    /\ orbit' = o
    /\ statics' = computePositionVelocity(o, jed, lt, statics).statics
    /\ ret' = [op |-> "computePositionVelocity", jed |-> jed, lt |-> lt,
               pos |-> computePositionVelocity(o, jed, lt, statics).pos,
               vel |-> computePositionVelocity(o, jed, lt, statics).vel]
    /\ UNCHANGED <<coords, obj, ephemJed, pc, fsp, passes>>

\* the context is set to time t and the object's ephemeris computed
CallComputeEphemeris(o, t) ==
    /\ pc = "planet"
    /\ orbit' = o
    /\ coords' = setTime(coords, t)
    /\ obj' = computeEphemeris(o, coords', statics).obj
    /\ statics' = computeEphemeris(o, coords', statics).statics
    /\ ephemJed' = t
    /\ ret' = [op |-> "computeEphemeris", evals |-> computeEphemeris(o, coords', statics).evals,
               before |-> statics]
    /\ UNCHANGED <<pc, fsp, passes>>

\* a pure function of its arguments: called as the program starts
CallComputeMagnitude(kind, id, phase) ==
    /\ pc = "planet"
    /\ ret.op = "none"
    /\ ret' = [op |-> "computeMagnitude", kind |-> kind, id |-> id, phase |-> phase,
               value |-> computeMagnitude(kind, id, phase)]
    /\ UNCHANGED <<coords, orbit, obj, ephemJed, statics, pc, fsp, passes>>

NextPlanet ==
    \/ \E o \in PlanetObjects, jed \in PlanetTimes, lt \in LightTimes :
          CallComputePositionVelocity(o, jed, lt)
    \/ \E o \in PlanetObjects, t \in PlanetTimes : CallComputeEphemeris(o, t)
    \/ \E kind \in MagKinds, id \in MagIds, phase \in Phases :
          CallComputeMagnitude(kind, id, phase)

SpecPlanet == InitPlanet /\ [][NextPlanet]_vars

(***************************************************************************)
(* Properties of the ephemeris calls                                       *)
(***************************************************************************)
\* C21: a computeEphemeris call evaluates position and velocity exactly
\* twice, first with light time 0, then with the light time of the distance
\* the first evaluation gave; the position, velocity, direction and distance
\* stored are those of the second evaluation.
C21_TwoEvaluations ==
    ret.op = "computeEphemeris" =>
        /\ Len(ret.evals) = 2
        /\ ret.evals[1].lt = 0
        /\ ret.evals[1].pos = computePositionVelocity(orbit, coords.time, 0, ret.before).pos
        /\ ret.evals[2].lt = LightTime(ret.evals[1].pos)
        /\ ret.evals[2].pos
              = computePositionVelocity(orbit, coords.time, ret.evals[2].lt, statics).pos
        /\ obj.position = ret.evals[2].pos
        /\ obj.velocity = ret.evals[2].vel
        /\ obj.direction = [lon |-> ret.evals[2].pos.lon % kTwoPi, lat |-> ret.evals[2].pos.lat]
        /\ obj.distance = ret.evals[2].pos.rad

\* a call for an object whose two evaluations give different positions
C21_Witness ==
    /\ ret.op = "computeEphemeris"
    /\ ret.evals[2].lt > 0
    /\ ret.evals[1].pos # ret.evals[2].pos

\* the heliocentric position and velocity object o has at time t: those of
\* its own orbit, to which a moon adds those its primary has at t, and a
\* satellite those the Earth has at t
HeliocentricAt(o, t) ==
    IF o.kind = "planet" THEN computeMajorPlanetPositionVelocity(o, t, 0)
    ELSE IF o.kind = "moon"
    THEN MoonAddPrimary(computeMinorPlanetPositionVelocity(o, t, 0), 0, PrimarySlot(o),
                        PrimaryFilled(PrimarySlot(o), t, NewStatics))
    ELSE IF o.kind \in {"asteroid", "comet"} THEN computeMinorPlanetPositionVelocity(o, t, 0)
    ELSE SatelliteAddEarth(SatelliteRelative(o, t, 0), 0, EarthFilled(t, NewStatics))

\* C22 as claimed: for every category, computePositionVelocity(time, lt)
\* returns the heliocentric position and velocity the object has at
\* time - lt, the contribution of a moon's primary or of the Earth being the
\* one at time - lt.
C22_EvaluatedAtRetardedTime ==
    ret.op = "computePositionVelocity" =>
        /\ ret.pos = HeliocentricAt(orbit, ret.jed - ret.lt).pos
        /\ ret.vel = HeliocentricAt(orbit, ret.jed - ret.lt).vel

\* C23 as claimed: the primary position and velocity a
\* computeMoonPositionVelocity call with query time jed uses (those its slot
\* holds when the call returns) are the ones
\* computeMajorPlanetPositionVelocity(p, jed, 0) gives, after any sequence of
\* calls from the initial statics.
C23_PrimaryCacheFresh ==
    (ret.op = "computePositionVelocity" /\ orbit.kind = "moon") =>
        LET p == PrimarySlot(orbit)
            fresh == computeMajorPlanetPositionVelocity(MajorOrbit(p), ret.jed, 0)
        IN /\ statics.primaryJED[p] = ret.jed
           /\ statics.primaryPos[p] = fresh.pos.lon
           /\ statics.primaryVel[p] = fresh.vel

\* C25 as claimed: computeMagnitude uses the H-G model for every asteroid and
\* every moon, the H-K law for every comet and the standard-magnitude model
\* for every satellite, whatever the identifier; the satellite model gives
\* the undefined sentinel exactly when phase >= pi.
C25_FormulaByCategory ==
    ret.op = "computeMagnitude" =>
        /\ ret.kind \in {"asteroid", "moon"} => ret.value.formula = "H-G"
        /\ ret.kind = "comet" => ret.value.formula = "H-K"
        /\ ret.kind = "satellite" =>
              /\ ret.value.formula = "standard"
              /\ ret.value.defined <=> ret.phase < kPi

(***************************************************************************)
(* Two threads in computeMoonPositionVelocity and                          *)
(* computeSatellitePositionVelocity                                        *)
(*                                                                         *)
(* pc[t] is the position of thread t in its call and ret[t] the locals of  *)
(* that call; the statics are shared.  A call tests the key of its cache   *)
(* (lines 120, 147), writes the primary's or the Earth's position and      *)
(* velocity (lines 122, 149), writes the key (lines 123, 150) and adds the *)
(* cached vectors to its own (lines 128-129, 172-173); the threads take    *)
(* these steps in any order.  overlapped records that calls of the two     *)
(* threads have been in progress at the same moment, now or earlier.       *)
(***************************************************************************)
Threads == {1, 2}

ThreadObjects == {o \in PlanetObjects : o.kind \in {"moon", "satellite"}}

\* query times of the threads
ThreadTimes == PlanetTimes \ {0}

InCall == {"test", "fill", "key", "add"}

NoPosition == Spherical(HUGE_VAL, HUGE_VAL, HUGE_VAL)

IdleFrame ==
    [orb |-> Primary, jed |-> 0, lt |-> 0, pos |-> NoPosition, vel |-> HUGE_VAL,
     overlapped |-> FALSE]

\* the key of the cache the call of object o reads
CacheKey(o, st) ==
    IF o.kind = "satellite" THEN st.earthJED ELSE st.primaryJED[PrimarySlot(o)]

CacheWritten_none(o, jed, st) == st

\* lines 122, 149: the vectors of the cache are computed for jed
CacheWritten(o, jed, st) ==
    IF o.kind = "satellite"
    THEN [st EXCEPT !.earthPos = EarthFilled(jed, st).earthPos,
                    !.earthVel = EarthFilled(jed, st).earthVel]
    ELSE [st EXCEPT !.primaryPos = PrimaryFilled(PrimarySlot(o), jed, st).primaryPos,
                    !.primaryVel = PrimaryFilled(PrimarySlot(o), jed, st).primaryVel]

\* lines 123, 150: the key of the cache is set to jed
CacheKeyed(o, jed, st) ==
    IF o.kind = "satellite"
    THEN [st EXCEPT !.earthJED = jed]
    ELSE [st EXCEPT !.primaryJED[PrimarySlot(o)] = jed]

\* lines 128-129, 172-173: the cached vectors are added to the call's own
CacheAdded(o, jed, lt, st) ==
    IF o.kind = "satellite"
    THEN SatelliteAddEarth(SatelliteRelative(o, jed, lt), lt, st)
    ELSE MoonAddPrimary(computeMinorPlanetPositionVelocity(o, jed, lt), lt, PrimarySlot(o), st)

\* the frames after a step that leaves the threads at positions p
Overlap(p, frames) ==
    [t \in Threads |->
        [frames[t] EXCEPT !.overlapped = @ \/ (\A u \in Threads : p[u] \in InCall)]]

InitThreads ==
    /\ coords = [time |-> 0, lon |-> 0, lat |-> 160]
    /\ orbit = Primary
    /\ obj = NewPlanet
    /\ ephemJed = INFINITY
    /\ statics = NewStatics
    /\ ret = [t \in Threads |-> IdleFrame]
    /\ pc = [t \in Threads |-> "idle"]
    /\ fsp = NoFrame
    /\ passes = << >>

T_Call(t, o, jed, lt) ==
    /\ pc[t] \in {"idle", "done"}
    /\ pc' = [pc EXCEPT ![t] = "test"]
    /\ ret' = Overlap(pc', [ret EXCEPT ![t] = [IdleFrame EXCEPT
                                                  !.orb = o, !.jed = jed, !.lt = lt,
                                                  !.overlapped = ret[t].overlapped]])
    /\ UNCHANGED <<coords, orbit, obj, ephemJed, statics, fsp, passes>>

T_Test(t) ==
    /\ pc[t] = "test"
    /\ pc' = [pc EXCEPT ![t] = IF ret[t].jed # CacheKey(ret[t].orb, statics)
                                THEN "fill" ELSE "add"]
    /\ UNCHANGED <<coords, orbit, obj, ephemJed, statics, ret, fsp, passes>>

T_Fill(t) ==
    /\ pc[t] = "fill"
    /\ statics' = CacheWritten(ret[t].orb, ret[t].jed, statics)
    /\ pc' = [pc EXCEPT ![t] = "key"]
    /\ UNCHANGED <<coords, orbit, obj, ephemJed, ret, fsp, passes>>

T_Key(t) ==
    /\ pc[t] = "key"
    /\ statics' = CacheKeyed(ret[t].orb, ret[t].jed, statics)
    /\ pc' = [pc EXCEPT ![t] = "add"]
    /\ UNCHANGED <<coords, orbit, obj, ephemJed, ret, fsp, passes>>

T_Add(t) ==
    /\ pc[t] = "add"
    /\ pc' = [pc EXCEPT ![t] = "done"]
    /\ ret' = [ret EXCEPT ![t].pos = CacheAdded(ret[t].orb, ret[t].jed, ret[t].lt, statics).pos,
                          ![t].vel = CacheAdded(ret[t].orb, ret[t].jed, ret[t].lt, statics).vel]
    /\ UNCHANGED <<coords, orbit, obj, ephemJed, statics, fsp, passes>>

NextThreads ==
    \/ \E t \in Threads, o \in ThreadObjects, jed \in ThreadTimes, lt \in LightTimes :
          T_Call(t, o, jed, lt)
    \/ \E t \in Threads : T_Test(t)
    \/ \E t \in Threads : T_Fill(t)
    \/ \E t \in Threads : T_Key(t)
    \/ \E t \in Threads : T_Add(t)

SpecThreads == InitThreads /\ [][NextThreads]_vars

\* the call of thread t has returned what a call alone in the process returns
Sequential(t) ==
    /\ ret[t].pos = computePositionVelocity(ret[t].orb, ret[t].jed, ret[t].lt, NewStatics).pos
    /\ ret[t].vel = computePositionVelocity(ret[t].orb, ret[t].jed, ret[t].lt, NewStatics).vel

\* C24: the caches are unsafe under concurrency, and only under it: as long
\* as no two calls have been in progress at the same moment, every call
\* returns the position and velocity for its own query time, while a
\* satellite call overlapped by one for another query time can add the
\* Earth's vectors cached for the other thread's time (C24_Witness).
C24_StaleOnlyWhenOverlapped ==
    \A t \in Threads : (pc[t] = "done" /\ ~ret[t].overlapped) => Sequential(t)

\* a satellite call of thread 1 has returned its own vectors combined with
\* the Earth's position cached for the query time of thread 2's call
C24_Witness ==
    /\ pc[1] = "done"
    /\ pc[2] # "idle"
    /\ ret[1].orb.kind = "satellite"
    /\ ret[2].orb.kind = "satellite"
    /\ ret[2].jed # ret[1].jed
    /\ ~Sequential(1)
    /\ ret[1].pos = CacheAdded(ret[1].orb, ret[1].jed, ret[1].lt,
                               EarthFilled(ret[2].jed, NewStatics)).pos

====
